---- MODULE Spec2Model ----
(***************************************************************************)
(* A model of the pointer-bumping heap allocator of pb-alloc.c.            *)
(*                                                                         *)
(* The machine is scaled down: size_t / intptr_t are WordBits wide (the    *)
(* arithmetic of the C code is kept, modulo 2^WordBits, with intptr_t read *)
(* as two's complement), the reserved region is HEAP_SIZE bytes, and the   *)
(* region is kept as a byte array so that header writes, memset and memcpy *)
(* are modelled byte by byte.  An access outside the mmap()ed region is    *)
(* undefined behaviour: what lies there is not the allocator's.  The model *)
(* lets the process either die of a segmentation fault at the first access *)
(* to such an address or find it mapped, holding a foreign byte; a mapped  *)
(* address then behaves as memory does.  The upper half of the address    *)
(* space and the null address are never mapped.                            *)
(***************************************************************************)
EXTENDS Integers, Sequences, FiniteSets, TLC

VARIABLES start_addr, end_addr, free_addr, mem, status, blocks, huge, last,
          tracking, released, shrunk

vars == <<start_addr, end_addr, free_addr, mem, status, blocks, huge, last,
          tracking, released, shrunk>>

----------------------------------------------------------------------------
(* The scaled machine *)

\* Width, in bits, of size_t and intptr_t (64 on the real machine).
WordBits == 8

Word == 2^WordBits

\* The addresses of the machine, as unsigned values (void*, size_t).
Addr == 0..(Word - 1)

\* A value of a byte of memory.
ByteMod == 2^8

\* (intptr_t)x : the two's complement reading of an unsigned word.
ToSigned(x) == IF x >= Word \div 2 THEN x - Word ELSE x

\* (size_t)x : the unsigned reading of a (possibly negative) intptr_t.
ToUnsigned(x) == x % Word

\* The virtual address space reserved for the heap (GB(2) in the source).
HEAP_SIZE == 64

\* sizeof(header_s): one size_t.
HeaderSize == 8

\* The double-word alignment malloc gives to block pointers.
ALIGN == 16

NULL == 0

\* The granularity of the addresses mmap() returns.
PAGE_SIZE == 16

\* The addresses at which mmap() may place the region.
MmapBases == {PAGE_SIZE}

\* The content of the memory that is not part of the region is unknown to
\* the allocator: a call that finds it mapped finds one of these bytes there.
ForeignBytes == {0, ByteMod - 1}

----------------------------------------------------------------------------
(* Bounds on the caller *)

\* The sizes the caller asks for: 0, a small one, two larger than the
\* alignment, one for which size + sizeof(header_s) wraps to 0 and one for
\* which the bumped address wraps past the end of the address space.
Sizes == {0, 1, ALIGN + 1, ALIGN + 2, Word - HeaderSize, Word - 2 * ALIGN}

\* The element counts calloc is called with: 0, 1 and two counts whose
\* product with the element size overflows size_t.
Counts == {0, 1, Word \div 2, Word \div 2 + 1}

\* The element sizes calloc is called with.
ElemSizes == {2}

\* The number of blocks the caller obtains in one run.
MaxBlocks == 3

\* The number of calls the caller makes with a size or count that no heap
\* could satisfy (half the range of size_t or more).
MaxHuge == 1

IsHuge(n) == n >= Word \div 2

\* The caller writes the first MaxFill bytes (at most) of a block.
MaxFill == 9

\* The first byte of the pattern the caller writes.
PatternBase == 1

----------------------------------------------------------------------------
(* The allocator's state as one value, and memory *)

\* The globals (free_addr, start_addr, end_addr), the bytes of the region,
\* and whether the process is still running ("running"), was killed by an
\* invalid access ("segv") or terminated by ERROR ("fatal").
State == [start |-> start_addr, end |-> end_addr, free |-> free_addr,
          mem |-> mem, status |-> status]

\* The n addresses from a on (address arithmetic wraps).
AddrRange(a, n) == {(a + i) % Word : i \in 0..(n - 1)}

\* The addresses of the region mmap() returned at heap.
RegionAt(heap) == AddrRange(heap, HEAP_SIZE)

\* Memory m is a function on the addresses known to be mapped: the region
\* and the addresses outside it that an access has found mapped.

\* An access to the addresses `touched` may fault: one is not known mapped.
Faults(m, touched) == ~(touched \subseteq DOMAIN m)

\* The addresses that can be mapped in a process: not those of the page of
\* the null address and not those of the upper half of the address space,
\* which is not the process's (as intptr_t they are negative).
UserSpace == PAGE_SIZE..(Word \div 2 - 1)

\* An access to the addresses `touched` may go through: they are known to be
\* mapped, or may all be found mapped.
Survives(m, touched) ==
  touched \subseteq DOMAIN m \/ touched \subseteq UserSpace

\* Memory once the addresses `touched` were found mapped, holding fb.
Mapped(m, touched, fb) ==
  [a \in DOMAIN m \cup touched |-> IF a \in DOMAIN m THEN m[a] ELSE fb]

\* The number of bytes of a size_t that a WordBits-wide value can fill.
SizeBytes == (WordBits + 7) \div 8

\* header_ptr->size = size : the size_t stored little-endian at hp.
StoreSize(m, hp, size) ==
  [a \in DOMAIN m |->
     LET off == (a - hp) % Word
     IN  IF off < HeaderSize
           THEN IF off < SizeBytes THEN (size \div (ByteMod^off)) % ByteMod ELSE 0
           ELSE m[a]]

RECURSIVE LoadBytes(_, _, _)
LoadBytes(m, hp, n) ==
  IF n = 0 THEN 0
  ELSE m[hp % Word] + ByteMod * LoadBytes(m, hp + 1, n - 1)

\* old_header->size : the size_t read at hp.
LoadSize(m, hp) == LoadBytes(m, hp, SizeBytes) % Word

\* memset(p, 0, n)
memset(m, p, n) ==
  [a \in DOMAIN m |-> IF (a - p) % Word < n THEN 0 ELSE m[a]]

\* A byte-by-byte copy of n bytes from src to dst, lowest address first.
\* With d the distance from src to dst, byte i is read at src+i, where the
\* copy itself stored byte i-d before (when i >= d > 0): the byte stored is
\* the original byte at the end of the chain i, i-d, i-2d, ...
CopyUp(m, dst, src, n) ==
  LET d == (dst - src) % Word
  IN  [a \in DOMAIN m |->
         LET i == (a - dst) % Word
         IN  IF i < n
               THEN m[(src + (IF d = 0 THEN i ELSE i % d)) % Word]
               ELSE m[a]]

\* The same, highest address first: byte i is read where byte i+e was
\* stored before (when i+e < n), e the distance from dst to src.
CopyDown(m, dst, src, n) ==
  LET e == (src - dst) % Word
  IN  [a \in DOMAIN m |->
         LET i == (a - dst) % Word
         IN  IF i < n
               THEN m[(src + (IF e = 0 THEN i
                              ELSE i + e * ((n - 1 - i) \div e))) % Word]
               ELSE m[a]]

\* memcpy(dst, src, n): the memories it can leave.  When the two ranges
\* overlap the result is undefined; it is then either order of copying
\* (the two agree when the ranges do not overlap).
memcpy(m, dst, src, n) ==
  {CopyUp(m, dst, src, n), CopyDown(m, dst, src, n)}

----------------------------------------------------------------------------
(* The allocator: each function maps a state (and its arguments) to the    *)
(* set of its outcomes [st, ret, carved, freed]: the state it leaves, the  *)
(* pointer it returns, the blocks it carved and the pointers it passed to  *)
(* free().  A call during which the process dies returns nothing (ret is   *)
(* NULL and st.status is not "running").                                   *)

Out(S, ret, carved, fr) ==
  [st |-> S, ret |-> ret, carved |-> carved, freed |-> fr]

\* The process dies of an invalid access in state S.
Segv(S) == Out([S EXCEPT !.status = "segv"], NULL, <<>>, {})

\* ERROR(...) taken for a report that returns to its caller.
ERRORReturns(S) == S

\* ERROR(...) of safeio.h: report and terminate the process.
ERROR(S) == [S EXCEPT !.status = "fatal"]

\* The body of init() when mmap() returned heap: the bounds are recorded and
\* the region is fresh anonymous memory, which reads as zero.
initHeap(S, heap) ==
  [S EXCEPT !.start = ToSigned(heap),
            !.end   = ToSigned((heap + HEAP_SIZE) % Word),
            !.free  = ToSigned(heap),
            !.mem   = [a \in RegionAt(heap) |-> 0]]

\* MAP_FAILED, (void*) -1: what mmap() returns when it fails.
MAP_FAILED == Word - 1

\* init() when mmap() failed: ERROR is called; were it to return, the
\* bounds would be set from MAP_FAILED, with no memory behind them.
mmapFailed(S) ==
  LET E == ERROR(S)
  IN  IF E.status = "running"
        THEN [initHeap(E, MAP_FAILED) EXCEPT !.mem = E.mem]
        ELSE E

\* init(): nothing once the region exists; else mmap() either fails, which
\* is fatal, or returns a page-aligned region.
init(S) ==
  IF S.start = 0
    THEN {mmapFailed(S)} \cup {initHeap(S, heap) : heap \in MmapBases}
    ELSE {S}

\* size + sizeof(header_s), in size_t.
TotalSize(size) == (size + HeaderSize) % Word

\* A padding that aligns the header and not the block pointer.
PadAlignsHeader(fa) == (ALIGN - ((fa % Word) % ALIGN)) % ALIGN

\* The padding between free_addr and the header, so that the block pointer
\* is double-word aligned.
Pad(fa) == (ALIGN - (((fa + HeaderSize) % Word) % ALIGN)) % ALIGN

HeaderPtr(fa) == (fa + Pad(fa)) % Word

BlockPtr(fa) == (fa + Pad(fa) + HeaderSize) % Word

\* free_addr + pad + total_size, computed in size_t and stored in an intptr_t.
NewFreeAddr(fa, size) == ToSigned((fa + Pad(fa) + TotalSize(size)) % Word)

\* The test that the block does not fit in the heap (a signed comparison).
OutOfHeap(new_free_addr, ea) == new_free_addr > ea

\* The test of malloc's `if (size == 0)` lost.
ZeroSizeUnchecked(size) == FALSE

\* The request is for a block of no bytes.
ZeroSize(size) == size = 0

\* malloc(size) after init().
mallocBody(S, size) ==
  IF S.status # "running" \/ ZeroSize(size)
    THEN {Out(S, NULL, <<>>, {})}
    ELSE
      LET header_ptr    == HeaderPtr(S.free)
          block_ptr     == BlockPtr(S.free)
          new_free_addr == NewFreeAddr(S.free, size)
          bumped        == [S EXCEPT !.free = new_free_addr]
          header        == AddrRange(header_ptr, HeaderSize)
          written       == [bumped EXCEPT !.mem =
                              StoreSize(Mapped(S.mem, header, 0), header_ptr, size)]
          carved        == IF block_ptr = NULL THEN <<>>
                           ELSE <<[ptr |-> block_ptr, size |-> size]>>
      IN  IF OutOfHeap(new_free_addr, S.end)
            THEN {Out(S, NULL, <<>>, {})}
            ELSE (IF Survives(S.mem, header)
                    THEN {Out(written, block_ptr, carved, {})} ELSE {})
                 \cup (IF Faults(S.mem, header) THEN {Segv(bumped)} ELSE {})

malloc(S, size) == UNION {mallocBody(S1, size) : S1 \in init(S)}

\* free(ptr): only a debugging message.
free(S, ptr) == S

\* The block returned as malloc left it.
callocKeeps(o, block_size) == {o}

\* calloc(nmemb, size) once malloc has returned with outcome o.
callocClear(o, block_size) ==
  IF o.st.status = "running" /\ o.ret # NULL
    THEN LET block == AddrRange(o.ret, block_size)
         IN  (IF Survives(o.st.mem, block)
                THEN {[o EXCEPT !.st.mem =
                         memset(Mapped(o.st.mem, block, 0), o.ret, block_size)]}
                ELSE {})
             \cup (IF Faults(o.st.mem, block) THEN {Segv(o.st)} ELSE {})
    ELSE {o}

\* calloc refusing a product nmemb * size that does not fit in a size_t.
callocChecked(S, nmemb, size) ==
  IF nmemb * size >= Word
    THEN {Out(S, NULL, <<>>, {})}
    ELSE UNION {callocClear(o, nmemb * size) : o \in malloc(S, nmemb * size)}

\* calloc(nmemb, size)
calloc(S, nmemb, size) ==
  LET block_size == (nmemb * size) % Word
  IN  UNION {callocClear(o, block_size) : o \in malloc(S, block_size)}

\* The old block freed whether or not malloc returned a new one.
reallocCopyFreesAnyway(o, ptr, old_size) ==
  IF o.st.status = "running" /\ o.ret # NULL
    THEN {[o EXCEPT !.st.mem = m, !.freed = {ptr}]
          : m \in memcpy(Mapped(o.st.mem, AddrRange(o.ret, old_size)
                                           \cup AddrRange(ptr, old_size), 0),
                         o.ret, ptr, old_size)}
    ELSE {[o EXCEPT !.freed = {ptr}]}

\* realloc(ptr, size) once malloc has returned with outcome o: the old
\* contents are copied and the old block is freed.
reallocCopy(o, ptr, old_size) ==
  IF o.st.status = "running" /\ o.ret # NULL
    THEN LET both == AddrRange(o.ret, old_size) \cup AddrRange(ptr, old_size)
         IN  (IF Survives(o.st.mem, both)
                THEN {[o EXCEPT !.st = free([o.st EXCEPT !.mem = m], ptr),
                                !.freed = {ptr}]
                      : m \in UNION {memcpy(Mapped(o.st.mem, both, fb),
                                            o.ret, ptr, old_size)
                                     : fb \in ForeignBytes}}
                ELSE {})
             \cup (IF Faults(o.st.mem, both) THEN {Segv(o.st)} ELSE {})
    ELSE {o}

\* The block kept only when the new size is strictly smaller.
reallocSizedStrict(S, ptr, size, old_size) ==
  IF size < old_size
    THEN {Out(S, ptr, <<>>, {})}
    ELSE UNION {reallocCopy(o, ptr, old_size) : o \in malloc(S, size)}

\* The part of realloc(ptr, size) that follows the reading of the header.
reallocSized(S, ptr, size, old_size) ==
  IF size <= old_size
    THEN {Out(S, ptr, <<>>, {})}
    ELSE UNION {reallocCopy(o, ptr, old_size) : o \in malloc(S, size)}

\* realloc with the test of the size made before the test of the pointer.
reallocZeroFirst(S, ptr, size) ==
  IF size = 0 THEN {Out(free(S, ptr), NULL, <<>>, {ptr})}
  ELSE IF ptr = NULL THEN malloc(S, size)
  ELSE
    LET old_header == (ptr - HeaderSize) % Word
        header     == AddrRange(old_header, HeaderSize)
    IN  (IF Survives(S.mem, header)
           THEN UNION {LET T == [S EXCEPT !.mem = Mapped(S.mem, header, fb)]
                       IN  reallocSized(T, ptr, size, LoadSize(T.mem, old_header))
                       : fb \in ForeignBytes}
           ELSE {})
        \cup (IF Faults(S.mem, header) THEN {Segv(S)} ELSE {})

\* realloc without its `if (size == 0)`: a size of 0 is a size like another.
reallocKeepsOnZero(S, ptr, size) ==
  IF ptr = NULL THEN malloc(S, size)
  ELSE
    LET old_header == (ptr - HeaderSize) % Word
        header     == AddrRange(old_header, HeaderSize)
    IN  (IF Survives(S.mem, header)
           THEN UNION {LET T == [S EXCEPT !.mem = Mapped(S.mem, header, fb)]
                       IN  reallocSized(T, ptr, size, LoadSize(T.mem, old_header))
                       : fb \in ForeignBytes}
           ELSE {})
        \cup (IF Faults(S.mem, header) THEN {Segv(S)} ELSE {})

\* realloc(ptr, size)
realloc(S, ptr, size) ==
  IF ptr = NULL THEN malloc(S, size)
  ELSE IF size = 0 THEN {Out(free(S, ptr), NULL, <<>>, {ptr})}
  ELSE
    LET old_header == (ptr - HeaderSize) % Word
        header     == AddrRange(old_header, HeaderSize)
    IN  (IF Survives(S.mem, header)
           THEN UNION {LET T == [S EXCEPT !.mem = Mapped(S.mem, header, fb)]
                       IN  reallocSized(T, ptr, size, LoadSize(T.mem, old_header))
                       : fb \in ForeignBytes}
           ELSE {})
        \cup (IF Faults(S.mem, header) THEN {Segv(S)} ELSE {})

----------------------------------------------------------------------------
(* The caller *)

\* The pointers the caller holds: NULL and every block it was given.
Held == {NULL} \cup {blocks[i].ptr : i \in 1..Len(blocks)}

Min(a, b) == IF a < b THEN a ELSE b

\* The caller's pattern v, v+1, ... written over the first n bytes at p.
Pattern(m, p, n, v) ==
  [a \in DOMAIN m |-> IF (a - p) % Word < n
                        THEN (v + ((a - p) % Word)) % ByteMod
                        ELSE m[a]]

\* No call is in progress: the caller is between two calls.
Idle == [op |-> "none", ptr |-> NULL, nmemb |-> 0, size |-> 0,
         ret |-> NULL, freed |-> {}, carved |-> 0]

\* The record of a call: what was called with what, and what it returned.
Call(op, ptr, nmemb, size, o) ==
  [op |-> op, ptr |-> ptr, nmemb |-> nmemb, size |-> size,
   ret |-> o.ret, freed |-> o.freed, carved |-> Len(o.carved)]

\* The caller can make a call: the process runs and no call is in progress.
CanCall == status = "running" /\ last = Idle

\* The first of the caller's blocks that is at address p.
FirstBlockAt(p) ==
  CHOOSE i \in 1..Len(blocks) :
    blocks[i].ptr = p /\ \A j \in 1..(i - 1) : blocks[j].ptr # p

\* The blocks of the caller that the call with outcome o passed to free().
FreedBlocks(o) == {i \in 1..Len(blocks) : blocks[i].ptr \in o.freed}

\* The blocks of the caller, their headers as malloc wrote them, that the
\* call (of realloc) kept in place for a size smaller than theirs.
ShrunkBlocks(o, call) ==
  {i \in 1..Len(blocks) :
     /\ call.op = "realloc"
     /\ o.st.status = "running"
     /\ call.ptr = blocks[i].ptr
     /\ call.ptr \in DOMAIN mem
     /\ AddrRange((call.ptr - HeaderSize) % Word, HeaderSize) \subseteq DOMAIN mem
     /\ LoadSize(mem, (call.ptr - HeaderSize) % Word) = blocks[i].size
     /\ 0 < call.size
     /\ call.size < blocks[i].size
     /\ o.ret = call.ptr
     /\ Len(o.carved) = 0}

\* The outcome o of a call becomes the state.  A caller that keeps track of
\* what it did (tracking) remembers the first block it has deallocated
\* (released) and the first block it has shrunk (shrunk), by their ranks in
\* blocks; 0 stands for none yet.
Commit(o, call) ==
  /\ Len(blocks) + Len(o.carved) <= MaxBlocks
  /\ huge' = huge + (IF IsHuge(call.size) \/ IsHuge(call.nmemb) THEN 1 ELSE 0)
  /\ huge' <= MaxHuge
  /\ start_addr' = o.st.start
  /\ end_addr'   = o.st.end
  /\ free_addr'  = o.st.free
  /\ mem'        = o.st.mem
  /\ status'     = o.st.status
  /\ blocks'     = blocks \o o.carved
  /\ last'       = call
  /\ tracking'   = tracking
  /\ released'   = IF tracking /\ released = 0 /\ FreedBlocks(o) # {}
                     THEN FirstBlockAt(CHOOSE q \in o.freed : q # NULL)
                     ELSE released
  /\ shrunk'     = IF tracking /\ shrunk = 0 /\ ShrunkBlocks(o, call) # {}
                     THEN FirstBlockAt(call.ptr)
                     ELSE shrunk

\* Before the first call: the globals are 0 and nothing is mapped.
Fresh ==
  /\ start_addr = 0
  /\ end_addr = 0
  /\ free_addr = 0
  /\ mem = <<>>
  /\ status = "running"
  /\ blocks = <<>>
  /\ huge = 0
  /\ last = Idle
  /\ released = 0
  /\ shrunk = 0

Init == Fresh /\ tracking = FALSE

\* The same, for a caller that keeps track of what it did.
InitTracked == Fresh /\ tracking = TRUE

Malloc ==
  /\ CanCall
  /\ \E size \in Sizes : \E o \in malloc(State, size) :
       Commit(o, Call("malloc", NULL, 0, size, o))

Calloc ==
  /\ CanCall
  /\ \E nmemb \in Counts, size \in ElemSizes :
       \E o \in calloc(State, nmemb, size) :
         Commit(o, Call("calloc", NULL, nmemb, size, o))

Realloc ==
  /\ CanCall
  /\ \E ptr \in Held, size \in Sizes : \E o \in realloc(State, ptr, size) :
       Commit(o, Call("realloc", ptr, 0, size, o))

Free ==
  /\ CanCall
  /\ \E ptr \in Held :
       LET o == Out(free(State, ptr), NULL, <<>>, {ptr})
       IN  Commit(o, Call("free", ptr, 0, 0, o))

\* The caller writes into the block it obtained last.
Fill ==
  /\ CanCall
  /\ \E i \in {Len(blocks)} \ {0} :
       LET p     == blocks[i].ptr
           n     == Min(blocks[i].size, MaxFill)
           bytes == AddrRange(p, n)
           o     == Out([State EXCEPT !.mem =
                           Pattern(Mapped(mem, bytes, 0), p, n, PatternBase)],
                        NULL, <<>>, {})
       IN  \E u \in (IF Survives(mem, bytes) THEN {o} ELSE {})
                     \cup (IF Faults(mem, bytes) THEN {Segv(State)} ELSE {}) :
             Commit(u, Call("fill", p, 0, n, u))

\* The call has returned and the caller goes on.
Return ==
  /\ status = "running"
  /\ last # Idle
  /\ last' = Idle
  /\ UNCHANGED <<start_addr, end_addr, free_addr, mem, status, blocks, huge,
                 tracking, released, shrunk>>

Next == Malloc \/ Calloc \/ Realloc \/ Free \/ Fill \/ Return

Spec == Init /\ [][Next]_vars

\* The runs of a caller that keeps track of what it did.
SpecTracked == InitTracked /\ [][Next]_vars

----------------------------------------------------------------------------
(* Properties *)

\* The calls that can return a block.
AllocOps == {"malloc", "calloc", "realloc"}

\* The region has been reserved.
Initialised == start_addr # 0

\* A call has returned to a running process.
Returned(op) == status = "running" /\ last.op = op

\* The size recorded in the header of the block at p, in memory m.
Recorded(m, p) == LoadSize(m, (p - HeaderSize) % Word)

\* C1: every non-null address returned by malloc, calloc or realloc is a
\* multiple of 16, whatever the cursor was and whatever was requested before.
C1_Aligned ==
  (status = "running" /\ last.op \in AllocOps /\ last.ret # NULL)
    => last.ret % ALIGN = 0

\* A block carved right after a block of ALIGN+1 bytes, that is, from a
\* cursor that is not a multiple of 16.
C1_Witness ==
  /\ Returned("malloc")
  /\ Len(blocks) = 2
  /\ blocks[1].size = ALIGN + 1
  /\ last.ret = blocks[2].ptr
  /\ free_addr = last.ret + last.size
  /\ Pad(blocks[1].ptr + blocks[1].size) # HeaderSize

\* The payload ranges [p1, p1+s1) and [p2, p2+s2) of two blocks overlap.
Overlap(b1, b2) == b1.ptr < b2.ptr + b2.size /\ b2.ptr < b1.ptr + b1.size

\* C2: the payload ranges of any two distinct successful allocations do not
\* overlap, for any requested sizes greater than 0.
C2_Disjoint ==
  \A i, j \in 1..Len(blocks) : i < j => ~Overlap(blocks[i], blocks[j])

\* C3: once the region is initialised, start <= cursor <= end.
C3_CursorInBounds ==
  (status = "running" /\ Initialised)
    => (start_addr <= free_addr /\ free_addr <= end_addr)

\* C4: no call makes the cursor decrease, and every successful allocation
\* makes it strictly greater, also for sizes for which size + header_size
\* wraps.
C4_CursorMonotonic ==
  [][(Initialised /\ status' = "running")
       => /\ free_addr' >= free_addr
          /\ (last'.carved > 0 => free_addr' > free_addr)]_vars

\* C5: malloc(s), s > 0, with padding + header_size + s greater than the
\* remaining capacity end - cursor returns NULL and leaves the cursor and
\* memory unchanged.
C5_Exhaustion ==
  [][(/\ Initialised
      /\ last'.op = "malloc"
      /\ last'.size > 0
      /\ Pad(free_addr) + HeaderSize + last'.size > end_addr - free_addr)
       => (last'.ret = NULL /\ free_addr' = free_addr /\ mem' = mem
           /\ status' = "running")]_vars

\* C6 as claimed: malloc(0) returns NULL and changes neither the bounds, nor
\* the cursor, nor memory, in every state, the first call included.
C6_NoStateMutated ==
  [][(last'.op = "malloc" /\ last'.size = 0)
       => /\ last'.ret = NULL
          /\ UNCHANGED <<start_addr, end_addr, free_addr, mem>>]_vars

\* C6 amended: malloc(0) returns NULL and changes nothing once the region is
\* initialised; as the first call it initialises the region (the bounds are
\* set, the cursor is the start and the region reads as zero), unless the
\* reservation fails and the process terminates, and does nothing else.
C6_ZeroSize ==
  [][(last'.op = "malloc" /\ last'.size = 0)
       => /\ last'.ret = NULL
          /\ blocks' = blocks
          /\ IF Initialised
               THEN UNCHANGED <<start_addr, end_addr, free_addr, mem, status>>
               ELSE \/ status' = "fatal"
                    \/ /\ status' = "running"
                       /\ start_addr' \in MmapBases
                       /\ end_addr' = start_addr' + HEAP_SIZE
                       /\ free_addr' = start_addr'
                       /\ mem' = [a \in RegionAt(start_addr') |-> 0]]_vars

\* malloc(0) has returned in a state where blocks had been carved.
C6_Witness ==
  /\ Returned("malloc")
  /\ last.size = 0
  /\ last.ret = NULL
  /\ Len(blocks) > 0
  /\ free_addr > start_addr

\* C7: realloc(p, s) with 0 < s <= n, n the size recorded for p, returns p
\* and changes nothing: cursor, header and every byte of memory are kept.
C7_ShrinkIsIdentity ==
  [][(/\ last'.op = "realloc"
      /\ last'.ptr # NULL
      /\ last'.size > 0
      /\ last'.size <= Recorded(mem, last'.ptr))
       => /\ last'.ret = last'.ptr
          /\ last'.freed = {}
          /\ UNCHANGED <<start_addr, end_addr, free_addr, mem, status, blocks>>]_vars

\* realloc has returned the block it was given, for a size equal to the
\* recorded one, after blocks were written to.
C7_Witness ==
  /\ Returned("realloc")
  /\ last.ptr # NULL
  /\ last.size = Recorded(mem, last.ptr)
  /\ last.ret = last.ptr
  /\ \E a \in AddrRange(last.ptr, last.size) : mem[a] # 0

\* C8: realloc(p, s) with s > n that obtains a new block returns an address
\* different from p: a block carved at the cursor, whose header records s.
C8_GrowRelocates ==
  [][(/\ last'.op = "realloc"
      /\ last'.ptr # NULL
      /\ last'.size > Recorded(mem, last'.ptr)
      /\ status' = "running"
      /\ last'.ret # NULL)
       => /\ last'.ret # last'.ptr
          /\ last'.ret = BlockPtr(free_addr)
          /\ Recorded(mem', last'.ret) = last'.size]_vars

\* C9: when realloc(p, s) with s > n returns q, bytes 0..n-1 at q are the
\* bytes 0..n-1 that were at p before the call, and those at p are kept.
C9_ContentPreserved ==
  [][(/\ last'.op = "realloc"
      /\ last'.ptr # NULL
      /\ last'.size > Recorded(mem, last'.ptr)
      /\ status' = "running"
      /\ last'.ret # NULL)
       => \A i \in 0..(Recorded(mem, last'.ptr) - 1) :
            LET src == (last'.ptr + i) % Word
                dst == (last'.ret + i) % Word
            IN  src \in DOMAIN mem
                  => (mem'[dst] = mem[src] /\ mem'[src] = mem[src])]_vars

\* C10: when realloc(p, s) with s > n gets no new block it returns NULL and
\* leaves the block, the cursor and memory as they were, without freeing p,
\* which later calls of realloc can still be given.
C10_FailedGrow ==
  [][(/\ last'.op = "realloc"
      /\ last'.ptr # NULL
      /\ last'.size > Recorded(mem, last'.ptr)
      /\ status' = "running"
      /\ last'.ret = NULL)
       => /\ last'.freed = {}
          /\ UNCHANGED <<start_addr, end_addr, free_addr, mem, blocks>>
          /\ last'.ptr \in Held'
          /\ Recorded(mem', last'.ptr) = Recorded(mem, last'.ptr)]_vars

\* realloc has returned NULL for a size greater than the recorded one.
C10_Witness ==
  /\ Returned("realloc")
  /\ last.ptr # NULL
  /\ last.size > Recorded(mem, last.ptr)
  /\ last.ret = NULL
  /\ last.freed = {}

\* C11: realloc(NULL, s) behaves exactly as malloc(s), for every size s (0
\* and the sizes no heap can satisfy included) and in every state (the
\* first call included): the two have the same outcomes, and what the call
\* returned and left is what malloc(s) returns and leaves.
C11_ResizeNull ==
  [][(last'.op = "realloc" /\ last'.ptr = NULL)
       => /\ realloc(State, NULL, last'.size) = malloc(State, last'.size)
          /\ \A s \in Sizes : realloc(State, NULL, s) = malloc(State, s)
          /\ \E o \in malloc(State, last'.size) :
               /\ o.ret = last'.ret
               /\ o.st = State'
               /\ blocks' = blocks \o o.carved]_vars

\* realloc(NULL, s) was the first call: it reserved the region and carved
\* the first block.
C11_Witness ==
  /\ Returned("realloc")
  /\ last.ptr = NULL
  /\ last.size > 0
  /\ Len(blocks) = 1
  /\ last.ret = BlockPtr(start_addr)
  /\ free_addr = last.ret + last.size

\* C12: realloc(p, 0), p not NULL, calls free(p) and returns NULL; it carves
\* no block and changes neither the bounds, nor the cursor, nor any byte of
\* memory.
C12_ResizeToZero ==
  [][(last'.op = "realloc" /\ last'.ptr # NULL /\ last'.size = 0)
       => /\ last'.ret = NULL
          /\ last'.freed = {last'.ptr}
          /\ last'.carved = 0
          /\ UNCHANGED <<start_addr, end_addr, free_addr, mem, status, blocks>>]_vars

\* realloc(p, 0) has returned for a block the caller had written to.
C12_Witness ==
  /\ Returned("realloc")
  /\ last.ptr # NULL
  /\ last.size = 0
  /\ last.ret = NULL
  /\ last.freed = {last.ptr}
  /\ last.ptr \in DOMAIN mem
  /\ mem[last.ptr] # 0

\* C13: when calloc(n, s) returns a block, its header records n * s (modulo
\* the word), every byte of that payload is 0, and no byte outside the
\* payload and the block's own header has changed.
C13_ZeroFill ==
  [][(last'.op = "calloc" /\ status' = "running" /\ last'.ret # NULL)
       => LET p       == last'.ret
              n       == Recorded(mem', p)
              payload == AddrRange(p, n)
              header  == AddrRange((p - HeaderSize) % Word, HeaderSize)
          IN  /\ n = (last'.nmemb * last'.size) % Word
              /\ \A a \in payload : a \in DOMAIN mem' /\ mem'[a] = 0
              /\ \A a \in DOMAIN mem \ (payload \cup header) :
                   mem'[a] = mem[a]]_vars

\* calloc has returned a block at the address of a block the caller had
\* been given, and had written to, before.
C13_Witness ==
  /\ Returned("calloc")
  /\ last.ret # NULL
  /\ last.nmemb * last.size > 0
  /\ \E i \in 1..(Len(blocks) - 1) : blocks[i].ptr = last.ret
  /\ mem[last.ret] = 0

\* C14: free(p), for p NULL or any address returned before, freed or not,
\* changes neither the bounds, nor the cursor, nor any byte of memory; and
\* no block carved after a block was freed overlaps the freed block.
C14_FreeIsNoOp ==
  [][/\ last'.op = "free"
          => UNCHANGED <<start_addr, end_addr, free_addr, mem, status, blocks>>
     /\ (released # 0 /\ last'.carved = 1)
          => ~Overlap(blocks[released], blocks'[Len(blocks')])]_vars

\* C15: the region is created once.  The first call that allocates reserves
\* it, with the cursor at its start; from then on start and end keep their
\* values, and the cursor, once it has left start, is never at start again.
C15_CreatedOnce ==
  [][/\ (~Initialised /\ Initialised')
          => /\ last'.op \in AllocOps
             /\ start_addr' \in MmapBases
             /\ end_addr' = start_addr' + HEAP_SIZE
             /\ \/ free_addr' = start_addr'
                \/ last'.carved = 1 /\ last'.ret = BlockPtr(start_addr')
     /\ Initialised
          => /\ start_addr' = start_addr
             /\ end_addr' = end_addr
             /\ (free_addr # start_addr => free_addr' # start_addr')]_vars

\* C16: calloc(n, s) behaves as malloc of n * s modulo 2^WordBits, with no
\* check of the multiplication: it returns what malloc returns for the
\* wrapped product and leaves the state malloc leaves, but for the zeroed
\* payload; the block it returns records the wrapped product; and it
\* returns NULL when the wrapped product is 0.
C16_CallocWraps ==
  [][(last'.op = "calloc" /\ status' = "running")
       => LET w == (last'.nmemb * last'.size) % Word
          IN  /\ w = 0 => (last'.ret = NULL /\ last'.carved = 0)
              /\ last'.ret # NULL => Recorded(mem', last'.ret) = w
              /\ \E o \in malloc(State, w) :
                   /\ o.st.status = "running"
                   /\ o.ret = last'.ret
                   /\ o.st.start = start_addr'
                   /\ o.st.end = end_addr'
                   /\ o.st.free = free_addr'
                   /\ blocks' = blocks \o o.carved
                   /\ \A a \in DOMAIN o.st.mem \ AddrRange(o.ret, w) :
                        mem'[a] = o.st.mem[a]]_vars

\* calloc has returned a block for a product that does not fit in a size_t:
\* the size recorded is the wrapped product, smaller than the product.
C16_Witness ==
  /\ Returned("calloc")
  /\ last.nmemb * last.size >= Word
  /\ last.ret # NULL
  /\ Recorded(mem, last.ret) = (last.nmemb * last.size) % Word
  /\ Recorded(mem, last.ret) < last.nmemb * last.size

\* C17: a failure to reserve the region is fatal.  The process terminates
\* in the first call that allocates: the call returns no address, start,
\* end and the cursor are left unset, never taking a value derived from
\* MAP_FAILED, and nothing executes in a terminated process.
C17_ReservationFatal ==
  [][/\ status # "fatal"
     /\ start_addr' # ToSigned(MAP_FAILED)
     /\ end_addr' # ToSigned((MAP_FAILED + HEAP_SIZE) % Word)
     /\ status' = "fatal"
          => /\ ~Initialised
             /\ last'.op \in AllocOps
             /\ last'.ret = NULL
             /\ last'.carved = 0
             /\ start_addr' = 0 /\ end_addr' = 0 /\ free_addr' = 0
             /\ mem' = mem
             /\ blocks' = blocks]_vars

\* The process has terminated in its first allocating call.
C17_Witness ==
  /\ status = "fatal"
  /\ last.op \in AllocOps
  /\ last.ret = NULL
  /\ start_addr = 0
  /\ blocks = <<>>

\* C18: malloc(s), s > 0, from a cursor c with c + pad + header_size + s <=
\* end, pad the padding of c, succeeds (also when the block ends at end),
\* returns c + pad + header_size, leaves the cursor at c + pad +
\* header_size + s and records s in the header below the address returned.
C18_ExactCarve ==
  [][(/\ Initialised
      /\ last'.op = "malloc"
      /\ last'.size > 0
      /\ free_addr + Pad(free_addr) + HeaderSize + last'.size <= end_addr)
       => /\ status' = "running"
          /\ last'.ret = free_addr + Pad(free_addr) + HeaderSize
          /\ free_addr' = free_addr + Pad(free_addr) + HeaderSize + last'.size
          /\ Recorded(mem', last'.ret) = last'.size]_vars

\* C19: the size recorded for a block stays the size n it was carved with:
\* once realloc(p, s1), s1 < n, has returned p, every later realloc(p, s2)
\* is decided against n and not s1.  It returns p for 0 < s2 <= n; for
\* s2 > n it returns NULL or a new block, to which n bytes of p were copied.
C19_StaleSize ==
  [][(/\ shrunk # 0
      /\ last'.op = "realloc"
      /\ last'.ptr = blocks[shrunk].ptr
      /\ last'.size > 0
      /\ status' = "running")
       => LET n == blocks[shrunk].size
          IN  IF last'.size <= n
                THEN last'.ret = last'.ptr /\ last'.carved = 0
                ELSE \/ last'.ret = NULL /\ last'.carved = 0
                     \/ /\ last'.carved = 1
                        /\ last'.ret # last'.ptr
                        /\ last'.freed = {last'.ptr}
                        /\ \A k \in 0..(n - 1) :
                             mem'[(last'.ret + k) % Word]
                               = mem[(last'.ptr + k) % Word]]_vars

\* The ranges [a1, a1+n1) and [a2, a2+n2) of addresses have a byte in common.
Meet(a1, n1, a2, n2) == a1 < a2 + n2 /\ a2 < a1 + n1

\* C20: the full extent [p - header_size, p + size) of every block returned
\* lies in [start, end), and the header of a block overlaps neither the
\* header nor the payload of another block.
C20_MetadataSafe ==
  \A i \in 1..Len(blocks) :
    LET b == blocks[i]
    IN  /\ start_addr <= b.ptr - HeaderSize
        /\ b.ptr + b.size <= end_addr
        /\ \A j \in 1..Len(blocks) \ {i} :
             /\ ~Meet(b.ptr - HeaderSize, HeaderSize,
                      blocks[j].ptr - HeaderSize, HeaderSize)
             /\ ~Meet(b.ptr - HeaderSize, HeaderSize,
                      blocks[j].ptr, blocks[j].size)

====
